---------------------------- MODULE Spec2Model ----------------------------
(***************************************************************************)
(* A model of loog (src/index.js): the Log class, its level methods        *)
(* (getLogFn), the level cascade (setLogLevel) and the state mutators.     *)
(*                                                                         *)
(* A Log instance is a record.  Every method of the class is an operator   *)
(* that takes the instance and the call's arguments and gives              *)
(*     [me |-> the instance after the call,                                *)
(*      out |-> the writes the call made, in order,                        *)
(*      ret |-> "this" | "undefined" | "TypeError" (the call threw)].      *)
(* The actions apply these operators to the instances of the state.        *)
(***************************************************************************)
EXTENDS Integers, Sequences, FiniteSets, TLC

VARIABLES
    obj,            \* the Log instances constructed so far, in order of construction
    _instance,      \* index in obj of the module-level `_instance`
    defaultCfg,     \* the module-level defaultCfg (its logLevel read from the environment)
    isWin,          \* /^win/.test(process.platform)
    supportsColor,  \* whether chalk renders styles in this terminal
    call,           \* the latest call: [op, inst, args]
    pre,            \* the called instance as it was before the latest call
    out,            \* the writes of the latest call
    ret,            \* what the latest call returned
    exports,        \* index in obj of the instance the methods of module.exports are bound to
    sink            \* the spy on standard output: whether one is installed, and the
                    \* writes it has recorded, in the order they were made

vars ==
    <<obj, _instance, defaultCfg, isWin, supportsColor, call, pre, out, ret, exports, sink>>

-----------------------------------------------------------------------------
(* Bounds of the model *)

\* indent() is not called at this depth or deeper
MaxDepth == 2
\* count() and track() are not called on a label that has this count
MaxCount == 2
\* Loog() is not called when this many instances have been constructed
MaxInstances == 2
\* a call is not made when the spy would come to hold more writes than this
MaxWrites == 3

-----------------------------------------------------------------------------
(* JavaScript values *)

\* a number that is an integer
Num(n) == [type |-> "number", val |-> n]
\* the value undefined, also what reading a deleted or never set property gives
UNDEFINED == [type |-> "undefined"]
\* the number NaN
NAN == [type |-> "NaN"]

IsInt(v) == v.type = "number"

\* v + 1, as `v++` computes it: undefined and NaN give NaN
Incr(v) == IF IsInt(v) THEN Num(v.val + 1) ELSE NAN
\* v > 0: false for undefined and NaN
GtZero(v) == IsInt(v) /\ v.val > 0

\* an option that a configuration object does not have
ABSENT == "<absent>"
\* the value null given as an argument
NULL == "<null>"

RECURSIVE Repeat(_, _)
\* s.repeat(n)
Repeat(s, n) == IF n <= 0 THEN "" ELSE s \o Repeat(s, n - 1)

RECURSIVE Join(_, _)
\* parts.join(sep)
Join(parts, sep) ==
    IF Len(parts) = 0 THEN ""
    ELSE IF Len(parts) = 1 THEN parts[1]
    ELSE parts[1] \o sep \o Join(Tail(parts), sep)

Digits == <<"0", "1", "2", "3", "4", "5", "6", "7", "8", "9">>

RECURSIVE NumStr(_)
\* `${n}` of a non-negative integer
NumStr(n) ==
    IF n < 10 THEN Digits[n + 1]
    ELSE NumStr(n \div 10) \o Digits[(n % 10) + 1]

\* an object without properties
EmptyObject == [k \in {} |-> ""]
\* o[k] = v
Put(o, k, v) == [x \in (DOMAIN o) \cup {k} |-> IF x = k THEN v ELSE o[x]]
\* delete o[k]
Delete(o, k) == [x \in (DOMAIN o) \ {k} |-> o[x]]

-----------------------------------------------------------------------------
(* The tables of the module *)

logLevels ==
    <<"all", "silly", "debug", "verbose", "timing", "http", "notice", "info",
      "success", "warn", "quiet", "error", "silent">>

LevelSet == {logLevels[k] : k \in DOMAIN logLevels}

\* textPrefixes with a tag for log too
textPrefixes_LogTagged ==
    [error |-> "[ERR]", warn |-> "[WRN]", warning |-> "[WRN]", http |-> "[NET]",
     info |-> "[INF]", success |-> "[OK ]", notice |-> "[NOT]", timing |-> "[TIM]",
     verbose |-> "[VRB]", debug |-> "[DBG]", silly |-> "[LOL]", log |-> "[LOG]"]

textPrefixes ==
    [error |-> "[ERR]", warn |-> "[WRN]", warning |-> "[WRN]", http |-> "[NET]",
     info |-> "[INF]", success |-> "[OK ]", notice |-> "[NOT]", timing |-> "[TIM]",
     verbose |-> "[VRB]", debug |-> "[DBG]", silly |-> "[LOL]", log |-> ""]

\* the glyphs are written by their code points
asciiPrefixes(win) ==
    [error |-> IF win THEN "U+25BA" ELSE "U+2716",
     warn |-> IF win THEN "U+203C" ELSE "U+26A0",
     warning |-> IF win THEN "U+203C" ELSE "U+26A0",
     http |-> IF win THEN "U+2261" ELSE "U+2637",
     info |-> IF win THEN "i" ELSE "U+2139",
     success |-> IF win THEN "U+221A" ELSE "U+2714",
     notice |-> IF win THEN "i" ELSE "U+2135",
     timing |-> IF win THEN "+" ELSE "U+25F7",
     verbose |-> IF win THEN "i" ELSE "U+2139",
     debug |-> IF win THEN "i" ELSE "U+2139",
     silly |-> IF win THEN "U+263A" ELSE "U+263A",
     log |-> ""]

emojiPrefixes ==
    [error |-> "U+274C ", warn |-> "U+303D", warning |-> "U+303D", http |-> "U+1F310 ",
     info |-> "U+27A1 ", success |-> "U+2705 ", notice |-> "U+2755 ",
     timing |-> "U+1F552 ", verbose |-> "U+1F3A4 ", debug |-> "U+1F52C ",
     silly |-> "U+1F643 ", log |-> ""]

npmPrefixes ==
    [error |-> "ERR", warn |-> "WRN", warning |-> "WRN", http |-> "NET",
     info |-> "INF", success |-> "OK ", notice |-> "NOT", timing |-> "TIM",
     verbose |-> "VRB", debug |-> "DBG", silly |-> "LOL", log |-> ">"]

\* the names of the level methods: Object.keys(textPrefixes)
LevelMethods == DOMAIN textPrefixes

\* the chalk style of each entry of colorStyles; log is t => t
chalkStyle ==
    [error |-> "red.bold", warn |-> "yellow.bold", warning |-> "yellow.bold",
     http |-> "cyan.bold", info |-> "green.bold", success |-> "green.bold",
     notice |-> "blue.bold", timing |-> "blue", verbose |-> "blue.bold",
     debug |-> "gray.bold", silly |-> "white.bold", log |-> ""]

\* colorStyles[level](text): a chalk style wraps a non-empty text in its codes
\* when the terminal supports colour and gives the text back otherwise
colorStyles(level, text, supports) ==
    IF level = "log" \/ text = "" \/ ~supports THEN text
    ELSE "<" \o chalkStyle[level] \o ">" \o text \o "</>"

-----------------------------------------------------------------------------
(* class Log.  An instance is a record                                      *)
(*   cfg           this.cfg: the merged options, with prefixes and colors   *)
(*                 resolved by the constructor and the flags _noPrefix and  *)
(*                 _noColors (a flag that was never set is FALSE)           *)
(*   enable        the `enable` property of each level method's function    *)
(*                 (never set is FALSE: only its truthiness is read)        *)
(*   _mute         this._mute (never set is FALSE: only its truthiness is   *)
(*                 read)                                                    *)
(*   _indentation  this._indentation                                        *)
(*   _indentWas    this._indentWas, UNDEFINED when the property is deleted  *)
(*   _counters     this._counters, label -> count                           *)
(*   _trackers     this._trackers, label -> count                           *)

Result(me, writes, r) == [me |-> me, out |-> writes, ret |-> r]

\* console.log(text)
ConsoleLog(text) == [fn |-> "console.log", text |-> text]
\* process.stdout.write(text)
StdoutWrite(text) == [fn |-> "process.stdout.write", text |-> text]

\* me.cfg.prefixes[level], "" when the table has no such entry
PrefixOf(me, level) ==
    IF level \in DOMAIN me.cfg.prefixes THEN me.cfg.prefixes[level] ELSE ""

\* me.cfg.colors[level](text), for the default colour set
ColorOf(me, level, text, supports) == colorStyles(level, text, supports)

\* getLogFn with the process label put in before the indentation is
getLogFn_LabelBeforeSpacing(me, level, args, supports) ==
    IF me.enable[level] /\ ~me._mute
    THEN LET a1 == IF PrefixOf(me, level) # ""
                   THEN IF me.cfg._noColors
                        THEN <<PrefixOf(me, level)>> \o args
                        ELSE <<ColorOf(me, level, PrefixOf(me, level), supports)>> \o args
                   ELSE args
             a2 == IF me.cfg.process # "" THEN <<me.cfg.process>> \o a1 ELSE a1
             a3 == IF GtZero(me._indentation)
                   THEN <<Repeat(" ", me._indentation.val)>> \o a2
                   ELSE a2
             line == IF me.cfg._noPrefix
                     THEN IF me.cfg._noColors
                          THEN Join(a3, " ")
                          ELSE ColorOf(me, level, Join(a3, " "), supports)
                     ELSE Join(a3, " ")
         IN  Result(me, <<ConsoleLog(line)>>, "this")
    ELSE Result(me, <<>>, "this")

\* getLogFn that puts the prefix in also when it is the empty string
getLogFn_EmptyPrefixToo(me, level, args, supports) ==
    IF me.enable[level] /\ ~me._mute
    THEN LET a1 == IF me.cfg._noColors
                   THEN <<PrefixOf(me, level)>> \o args
                   ELSE <<ColorOf(me, level, PrefixOf(me, level), supports)>> \o args
             a2 == IF GtZero(me._indentation)
                   THEN <<Repeat(" ", me._indentation.val)>> \o a1
                   ELSE a1
             a3 == IF me.cfg.process # "" THEN <<me.cfg.process>> \o a2 ELSE a2
             line == IF me.cfg._noPrefix
                     THEN IF me.cfg._noColors
                          THEN Join(a3, " ")
                          ELSE ColorOf(me, level, Join(a3, " "), supports)
                     ELSE Join(a3, " ")
         IN  Result(me, <<ConsoleLog(line)>>, "this")
    ELSE Result(me, <<>>, "this")

\* the function getLogFn(me, level) returns, called with the arguments args
getLogFn(me, level, args, supports) ==
    IF me.enable[level] /\ ~me._mute
    THEN LET a1 == IF PrefixOf(me, level) # ""
                   THEN IF me.cfg._noColors
                        THEN <<PrefixOf(me, level)>> \o args
                        ELSE <<ColorOf(me, level, PrefixOf(me, level), supports)>> \o args
                   ELSE args
             a2 == IF GtZero(me._indentation)
                   THEN <<Repeat(" ", me._indentation.val)>> \o a1
                   ELSE a1
             a3 == IF me.cfg.process # "" THEN <<me.cfg.process>> \o a2 ELSE a2
             line == IF me.cfg._noPrefix
                     THEN IF me.cfg._noColors
                          THEN Join(a3, " ")
                          ELSE ColorOf(me, level, Join(a3, " "), supports)
                     ELSE Join(a3, " ")
         IN  Result(me, <<ConsoleLog(line)>>, "this")
    ELSE Result(me, <<>>, "this")

\* this[type](text) inside count, report and json: a level method when type
\* names one, a TypeError (undefined is not a function) otherwise
CallByName(me, type, text, supports) ==
    IF type \in LevelMethods
    THEN getLogFn(me, type, <<text>>, supports)
    ELSE Result(me, <<>>, "TypeError")

mute(me) == Result([me EXCEPT !._mute = TRUE], <<>>, "this")

unmute(me) == Result([me EXCEPT !._mute = FALSE], <<>>, "this")

\* the statements of the switch of setLogLevel, from the first case label to
\* the break: a case entered runs every statement below it
CascadeStages ==
    <<[cases |-> {"all", "silly"}, sets |-> {"silly"}],
      [cases |-> {"debug", "verbose"}, sets |-> {"debug", "verbose"}],
      [cases |-> {"timing"}, sets |-> {"timing"}],
      [cases |-> {"http"}, sets |-> {"http"}],
      [cases |-> {"notice"}, sets |-> {"notice"}],
      [cases |-> {"info"}, sets |-> {"info", "success"}],
      [cases |-> {"warn"}, sets |-> {"warn", "warning"}],
      [cases |-> {"quiet", "error"}, sets |-> {"error", "log"}]>>

\* the methods whose enable flag the switch sets to true for newLevel
SwitchSets(newLevel) ==
    UNION {CascadeStages[k].sets :
             k \in {j \in DOMAIN CascadeStages :
                      \E e \in 1..j : newLevel \in CascadeStages[e].cases}}

\* setLogLevel that sets the flag of every method, to true for the methods of
\* the switch and to false for the others
setLogLevel_SetsEveryFlag(me, level) ==
    LET newLevel == IF level = "" \/ level \notin LevelSet THEN "info" ELSE level
    IN  IF newLevel = "silent"
        THEN Result(mute(me).me, <<>>, "this")
        ELSE Result([me EXCEPT !.enable = [m \in LevelMethods |-> m \in SwitchSets(newLevel)]],
                    <<>>, "this")

\* setLogLevel that unmutes the instance when the level is not silent
setLogLevel_Unmutes(me, level) ==
    LET newLevel == IF level = "" \/ level \notin LevelSet THEN "info" ELSE level
    IN  IF newLevel = "silent"
        THEN Result(mute(me).me, <<>>, "this")
        ELSE Result([me EXCEPT !._mute = FALSE,
                               !.enable =
                                   [m \in LevelMethods |->
                                       IF m \in SwitchSets(newLevel) THEN TRUE
                                       ELSE me.enable[m]]],
                    <<>>, "this")

\* setLogLevel with silent as the level that enables no method: it clears
\* every flag and does not mute
setLogLevel_SilentClearsFlags(me, level) ==
    LET newLevel == IF level = "" \/ level \notin LevelSet THEN "info" ELSE level
    IN  IF newLevel = "silent"
        THEN Result([me EXCEPT !.enable = [m \in LevelMethods |-> FALSE]], <<>>, "this")
        ELSE Result([me EXCEPT !.enable =
                         [m \in LevelMethods |->
                             IF m \in SwitchSets(newLevel) THEN TRUE ELSE me.enable[m]]],
                    <<>>, "this")

\* setLogLevel that leaves the instance as it is when the level is absent or
\* not a level
setLogLevel_UnknownIgnored(me, level) ==
    IF level = "" \/ level \notin LevelSet THEN Result(me, <<>>, "this")
    ELSE IF level = "silent"
    THEN Result(mute(me).me, <<>>, "this")
    ELSE Result([me EXCEPT !.enable =
                     [m \in LevelMethods |->
                         IF m \in SwitchSets(level) THEN TRUE ELSE me.enable[m]]],
                <<>>, "this")

setLogLevel(me, level) ==
    LET newLevel == IF level = "" \/ level \notin LevelSet THEN "info" ELSE level
    IN  IF newLevel = "silent"
        THEN Result(mute(me).me, <<>>, "this")
        ELSE Result([me EXCEPT !.enable =
                         [m \in LevelMethods |->
                             IF m \in SwitchSets(newLevel) THEN TRUE ELSE me.enable[m]]],
                    <<>>, "this")

\* new Log(config): config has every option, ABSENT for one it does not have
Log(config, win) ==
    LET known == config.prefixStyle \in {"text", "emoji", "ascii", "npm"}
        table == IF config.prefixes # ABSENT THEN EmptyObject
                 ELSE IF config.prefixStyle = "text" THEN textPrefixes
                 ELSE IF config.prefixStyle = "emoji" THEN emojiPrefixes
                 ELSE IF config.prefixStyle = "ascii" THEN asciiPrefixes(win)
                 ELSE IF config.prefixStyle = "npm" THEN npmPrefixes
                 ELSE EmptyObject
        me0 == [_indentation |-> Num(0),
                _indentWas |-> UNDEFINED,
                _counters |-> EmptyObject,
                _trackers |-> EmptyObject,
                _mute |-> FALSE,
                enable |-> [m \in LevelMethods |-> FALSE],
                cfg |-> [prefixStyle |-> config.prefixStyle,
                         logLevel |-> config.logLevel,
                         process |-> config.process,
                         color |-> config.color,
                         prefixes |-> table,
                         colors |-> IF config.colors = ABSENT THEN "colorStyles"
                                    ELSE config.colors,
                         _noPrefix |-> IF config.prefixes = ABSENT THEN ~known
                                       ELSE DOMAIN table = {},
                         _noColors |-> config.colors = "{}"]]
    IN  setLogLevel(me0, IF config.logLevel = ABSENT THEN "" ELSE config.logLevel).me

\* clear without the test of the mute flag
clear_IgnoresMute(me) == Result(me, <<StdoutWrite("<ESC>c")>>, "this")

clear(me) ==
    IF ~me._mute
    THEN Result(me, <<StdoutWrite("<ESC>c")>>, "this")
    ELSE Result(me, <<>>, "this")

\* label || '_'
Bucket(label) == IF label # "" THEN label ELSE "_"

\* o[k] || 0, for a key that Object.prototype does not have
CountOf(o, k) == IF k \in DOMAIN o THEN o[k] ELSE 0

\* the properties that an object literal inherits from Object.prototype, of
\* which the model has one, each with the string that `${value}` gives.  The
\* value is a function: it is truthy, and + 1 appends "1" to its string
ObjectPrototype == [toString |-> "function toString() { [native code] }"]

\* k in o
In(k, o) == k \in DOMAIN o \/ k \in DOMAIN ObjectPrototype

\* (o[k] || 0) + 1: a number for a key that only holds counts, a string for a
\* key that Object.prototype has
PlusOne(o, k) ==
    IF k \in DOMAIN ObjectPrototype
    THEN (IF k \in DOMAIN o THEN o[k] ELSE ObjectPrototype[k]) \o "1"
    ELSE CountOf(o, k) + 1

\* `${o[k]}`
Shown(o, k) ==
    IF k \in DOMAIN ObjectPrototype
    THEN (IF k \in DOMAIN o THEN o[k] ELSE ObjectPrototype[k])
    ELSE NumStr(o[k])

\* has no return statement
clearCount(me, label) ==
    Result([me EXCEPT !._counters = Delete(me._counters, Bucket(label))],
           <<>>, "undefined")

\* clearLine that writes the two sequences, cursor up and erase line, one by one
clearLine_TwoWrites(me) ==
    IF ~me._mute
    THEN Result(me, <<StdoutWrite("<ESC>[A"), StdoutWrite("<ESC>[K")>>, "this")
    ELSE Result(me, <<>>, "this")

clearLine(me) ==
    IF ~me._mute
    THEN Result(me, <<StdoutWrite("<ESC>[A<ESC>[K")>>, "this")
    ELSE Result(me, <<>>, "this")

\* type is NULL for null; an omitted type is "log"
count(me, label, type, supports) ==
    LET m == IF label # "" THEN label \o ": " ELSE ""
        key == Bucket(label)
        n == PlusOne(me._counters, key)
        me1 == [me EXCEPT !._counters = Put(me._counters, key, n)]
    IN  IF type # NULL
        THEN LET r == CallByName(me1, type, m \o Shown(me1._counters, key), supports)
             IN  IF r.ret = "TypeError" THEN Result(me1, <<>>, "TypeError")
                 ELSE Result(r.me, r.out, "this")
        ELSE Result(me1, <<>>, "this")

indent(me) == Result([me EXCEPT !._indentation = Incr(me._indentation)], <<>>, "this")

\* JSON.stringify(value, null, width).split('\n') for the values of the model,
\* <<>> for the value undefined, which JSON.stringify maps to undefined
JsonLines(value, width) ==
    IF value = "1" THEN <<"1">>
    ELSE IF value = "{a:1}" THEN <<"{", Repeat(" ", width) \o "\"a\": 1", "}">>
    ELSE <<>>

RECURSIVE EmitLines(_, _, _, _)
\* lines.map(l => {this[type](l)}): the writes of the calls, ret "TypeError"
\* when a call throws (the writes made before it stay written)
EmitLines(me, lines, type, supports) ==
    IF Len(lines) = 0 THEN Result(me, <<>>, "undefined")
    ELSE LET r == CallByName(me, type, Head(lines), supports)
         IN  IF r.ret = "TypeError" THEN r
             ELSE LET rest == EmitLines(r.me, Tail(lines), type, supports)
                  IN  Result(rest.me, r.out \o rest.out, rest.ret)

\* has no return statement; undefined.split throws; a NULL type is this[null]
json(me, value, width, type, supports) ==
    IF value = "undefined" THEN Result(me, <<>>, "TypeError")
    ELSE EmitLines(me, JsonLines(value, width), type, supports)

outdent(me) ==
    IF GtZero(me._indentation)
    THEN Result([me EXCEPT !._indentation = Num(me._indentation.val - 1)], <<>>, "this")
    ELSE Result(me, <<>>, "this")

\* pauseIndentation that resets the depth and saves nothing
pauseIndentation_SavesNothing(me) ==
    Result([me EXCEPT !._indentation = Num(0)], <<>>, "this")

pauseIndentation(me) ==
    Result([me EXCEPT !._indentWas = me._indentation, !._indentation = Num(0)],
           <<>>, "this")

\* the labels of the model in the order Array.prototype.sort gives them
LabelOrder == <<"B", "_", "a", "b", "toString">>

\* Object.keys(o).sort()
SortedKeys(o) == SelectSeq(LabelOrder, LAMBDA k : k \in DOMAIN o)

report(me, label, type, supports) ==
    IF label # "" /\ In(label, me._trackers)
    THEN LET r == CallByName(me, type, label \o ": " \o Shown(me._trackers, label),
                             supports)
         IN  IF r.ret = "TypeError" THEN r ELSE Result(r.me, r.out, "this")
    ELSE LET keys == SortedKeys(me._trackers)
             msg == [k \in DOMAIN keys |->
                        keys[k] \o ": " \o Shown(me._trackers, keys[k])]
         IN  IF Len(msg) # 0
             THEN LET r == CallByName(me, type, Join(msg, ", "), supports)
                  IN  IF r.ret = "TypeError" THEN r ELSE Result(r.me, r.out, "this")
             ELSE Result(me, <<>>, "this")

resetIndentation(me) ==
    Result([me EXCEPT !._indentation = Num(0), !._indentWas = UNDEFINED], <<>>, "this")

resumeIndentation(me) ==
    Result([me EXCEPT !._indentation = me._indentWas, !._indentWas = UNDEFINED],
           <<>>, "this")

track(me, label) ==
    IF label # ""
    THEN Result([me EXCEPT !._trackers =
                     Put(me._trackers, label, PlusOne(me._trackers, label))],
                <<>>, "this")
    ELSE Result(me, <<>>, "this")

untrack(me, label) ==
    IF label # "" /\ In(label, me._trackers)
    THEN Result([me EXCEPT !._trackers = Delete(me._trackers, label)], <<>>, "this")
    ELSE Result(me, <<>>, "this")

-----------------------------------------------------------------------------
(* The facade *)

\* the options of a configuration object; ABSENT for an option it does not have
NoOptions ==
    [prefixStyle |-> ABSENT, logLevel |-> ABSENT, process |-> ABSENT,
     color |-> ABSENT, colors |-> ABSENT, prefixes |-> ABSENT]

\* defaultCfg, with env the value of process.env.npm_config_loglevel ("" when unset)
DefaultCfg(env) ==
    [NoOptions EXCEPT !.prefixStyle = "text",
                      !.logLevel = IF env # "" THEN env ELSE "info"]

\* a merge in which an option of a is kept when b has it too
Assign_FirstWins(a, b) == [k \in DOMAIN a |-> IF a[k] # ABSENT THEN a[k] ELSE b[k]]

\* Object.assign({}, a, b)
Assign(a, b) == [k \in DOMAIN a |-> IF b[k] # ABSENT THEN b[k] ELSE a[k]]

\* a process option that is absent is falsy, as the empty string is
Merged(dflt, cfg) ==
    LET c == Assign(dflt, cfg)
    IN  [c EXCEPT !.process = IF c.process = ABSENT THEN "" ELSE c.process]

-----------------------------------------------------------------------------
(* The calls.  Every instance constructed so far can be called: a handle    *)
(* that wrap() returned keeps the methods bound to its instance.            *)

\* sinon.spy(process.stdout, 'write'), installed or not, with no call recorded
Spy(installed) == [spied |-> installed, calls |-> <<>>]

\* what the spy holds after the writes: a spy that is not installed records nothing
Recorded(spy, writes) ==
    IF spy.spied THEN [spy EXCEPT !.calls = @ \o writes] ELSE spy

\* a call that acts on the instance `_instance` names when the call is made
Called_OnCurrentInstance(i, op, args, r) ==
    /\ sink.spied => Len(sink.calls) + Len(r.out) <= MaxWrites
    /\ call' = [op |-> op, inst |-> i, args |-> args]
    /\ pre' = obj[i]
    /\ obj' = [obj EXCEPT ![_instance] = r.me]
    /\ out' = r.out
    /\ ret' = r.ret
    /\ sink' = Recorded(sink, r.out)
    /\ UNCHANGED <<_instance, defaultCfg, isWin, supportsColor, exports>>

\* a call on the handle of instance i, bound to that instance
Called(i, op, args, r) ==
    /\ sink.spied => Len(sink.calls) + Len(r.out) <= MaxWrites
    /\ call' = [op |-> op, inst |-> i, args |-> args]
    /\ pre' = obj[i]
    /\ obj' = [obj EXCEPT ![i] = r.me]
    /\ out' = r.out
    /\ ret' = r.ret
    /\ sink' = Recorded(sink, r.out)
    /\ UNCHANGED <<_instance, defaultCfg, isWin, supportsColor, exports>>

\* a level method m called with the arguments a
LevelCall(Ms, As) ==
    \E i \in DOMAIN obj, m \in Ms, a \in As :
        Called(i, m, a, getLogFn(obj[i], m, a, supportsColor))

SetLogLevelCall(Ls) ==
    \E i \in DOMAIN obj, l \in Ls :
        Called(i, "setLogLevel", <<l>>, setLogLevel(obj[i], l))

MuteCall == \E i \in DOMAIN obj : Called(i, "mute", <<>>, mute(obj[i]))

UnmuteCall == \E i \in DOMAIN obj : Called(i, "unmute", <<>>, unmute(obj[i]))

ClearCall == \E i \in DOMAIN obj : Called(i, "clear", <<>>, clear(obj[i]))

ClearLineCall == \E i \in DOMAIN obj : Called(i, "clearLine", <<>>, clearLine(obj[i]))

IndentCall ==
    \E i \in DOMAIN obj :
        /\ IsInt(obj[i]._indentation) => obj[i]._indentation.val < MaxDepth
        /\ Called(i, "indent", <<>>, indent(obj[i]))

OutdentCall == \E i \in DOMAIN obj : Called(i, "outdent", <<>>, outdent(obj[i]))

PauseIndentationCall ==
    \E i \in DOMAIN obj : Called(i, "pauseIndentation", <<>>, pauseIndentation(obj[i]))

ResumeIndentationCall ==
    \E i \in DOMAIN obj : Called(i, "resumeIndentation", <<>>, resumeIndentation(obj[i]))

ResetIndentationCall ==
    \E i \in DOMAIN obj : Called(i, "resetIndentation", <<>>, resetIndentation(obj[i]))

\* the count of k can be raised within the bounds of the model: a number below
\* MaxCount, or the inherited value of a key of Object.prototype
Countable(o, k) ==
    IF k \in DOMAIN ObjectPrototype THEN k \notin DOMAIN o ELSE CountOf(o, k) < MaxCount

CountCall(Ls, Ts) ==
    \E i \in DOMAIN obj, l \in Ls, t \in Ts :
        /\ Countable(obj[i]._counters, Bucket(l))
        /\ Called(i, "count", <<l, t>>, count(obj[i], l, t, supportsColor))

ClearCountCall(Ls) ==
    \E i \in DOMAIN obj, l \in Ls :
        Called(i, "clearCount", <<l>>, clearCount(obj[i], l))

TrackCall(Ls) ==
    \E i \in DOMAIN obj, l \in Ls :
        /\ Countable(obj[i]._trackers, l)
        /\ Called(i, "track", <<l>>, track(obj[i], l))

UntrackCall(Ls) ==
    \E i \in DOMAIN obj, l \in Ls : Called(i, "untrack", <<l>>, untrack(obj[i], l))

ReportCall(Ls, Ts) ==
    \E i \in DOMAIN obj, l \in Ls, t \in Ts :
        Called(i, "report", <<l, t>>, report(obj[i], l, t, supportsColor))

JsonCall(Vs, Ws, Ts) ==
    \E i \in DOMAIN obj, v \in Vs, w \in Ws, t \in Ts :
        Called(i, "json", <<v, NumStr(w), t>>, json(obj[i], v, w, t, supportsColor))

\* Loog(cfg), called on any handle: constructs an instance from cfg merged over
\* defaultCfg, makes it `_instance` and returns wrap(), a new handle bound to it.
\* module.exports is not assigned.  In `pre` is the instance as constructed.
LoogCall(Cfgs) ==
    \E cfg \in Cfgs :
        /\ Len(obj) < MaxInstances
        /\ obj' = Append(obj, Log(Merged(defaultCfg, cfg), isWin))
        /\ _instance' = Len(obj) + 1
        /\ call' = [op |-> "Loog", inst |-> Len(obj) + 1, args |-> <<cfg>>]
        /\ pre' = Log(Merged(defaultCfg, cfg), isWin)
        /\ out' = <<>>
        /\ ret' = "wrap"
        /\ UNCHANGED <<defaultCfg, isWin, supportsColor, exports, sink>>

-----------------------------------------------------------------------------
(* The initial states: one instance, constructed from the options cfg       *)
(* merged over defaultCfg, in an environment (env, win, colour)             *)

Constructed(Cfgs, Envs, Wins, Colours) ==
    \E cfg \in Cfgs, env \in Envs, win \in Wins, colour \in Colours :
        /\ defaultCfg = DefaultCfg(env)
        /\ isWin = win
        /\ supportsColor = colour
        /\ obj = <<Log(Merged(DefaultCfg(env), cfg), win)>>
        /\ _instance = 1
        /\ exports = 1
        /\ call = [op |-> "new", inst |-> 1, args |-> <<>>]
        /\ pre = Log(Merged(DefaultCfg(env), cfg), win)
        /\ out = <<>>
        /\ ret = "this"

\* every value setLogLevel and the logLevel option are given in the model:
\* the levels, no level ("") and a string that is no level
LevelInputs == LevelSet \cup {"", "loud"}

\* the arguments of a level method call
Msgs == {<<"Hi">>, <<"a", "b">>, <<>>}

\* the emitAs argument of count, report and json: methods, meta-levels, a
\* string that names nothing, null
EmitAs == {"log", "info", "error", "quiet", "all", "nothing", NULL}

-----------------------------------------------------------------------------
(* Spec: one instance with the default options, and every operation         *)

Init == Constructed({NoOptions}, {""}, {FALSE}, {TRUE}) /\ sink = Spy(FALSE)

Next ==
    \/ LevelCall({"log", "info", "debug"}, {<<"Hi">>})
    \/ SetLogLevelCall({"all", "silent", "loud"})
    \/ MuteCall
    \/ UnmuteCall
    \/ ClearCall
    \/ ClearLineCall
    \/ IndentCall
    \/ OutdentCall
    \/ PauseIndentationCall
    \/ ResumeIndentationCall
    \/ ResetIndentationCall
    \/ CountCall({""}, EmitAs)
    \/ ClearCountCall({""})
    \/ TrackCall({"a"})
    \/ UntrackCall({"a"})
    \/ ReportCall({"", "a"}, {"log", "quiet", NULL})
    \/ JsonCall({"1", "{a:1}", "undefined"}, {4}, {"log", "quiet"})

Spec == Init /\ [][Next]_vars

-----------------------------------------------------------------------------
(* SpecLevel: one instance constructed with any logLevel, then setLogLevel, *)
(* the level methods, mute and unmute                                       *)

LevelCfgs ==
    {[NoOptions EXCEPT !.logLevel = l] : l \in (LevelInputs \ {""}) \cup {ABSENT}}

InitLevel == Constructed(LevelCfgs, {"", "error"}, {FALSE}, {TRUE}) /\ sink = Spy(FALSE)

NextLevel ==
    \/ LevelCall(LevelMethods, {<<"c">>})
    \/ SetLogLevelCall(LevelInputs)
    \/ MuteCall
    \/ UnmuteCall

SpecLevel == InitLevel /\ [][NextLevel]_vars

-----------------------------------------------------------------------------
(* SpecRender: one instance constructed with any style, colour and label    *)
(* options in any environment, then level methods at any depth              *)

RenderCfgs ==
    {[NoOptions EXCEPT !.prefixStyle = st, !.process = pr, !.color = co,
                       !.colors = cs, !.logLevel = "all"] :
        st \in {ABSENT, "ascii", "emoji", "npm", "none", "fancy"},
        pr \in {ABSENT, "app"},
        co \in {ABSENT, "false"},
        cs \in {ABSENT, "{}"}}

\* an empty custom prefix table, with a style and without
CustomPrefixCfgs ==
    {[NoOptions EXCEPT !.prefixStyle = st, !.prefixes = "{}", !.logLevel = "all"] :
        st \in {ABSENT, "none"}}

InitRender ==
    /\ sink = Spy(FALSE)
    /\ \/ Constructed(RenderCfgs, {""}, BOOLEAN, BOOLEAN)
       \/ Constructed(CustomPrefixCfgs, {""}, {FALSE}, BOOLEAN)
       \/ Constructed({NoOptions}, {"", "notice", "error"}, {FALSE}, BOOLEAN)

NextRender ==
    \/ LevelCall(LevelMethods, Msgs)
    \/ IndentCall
    \/ OutdentCall

SpecRender == InitRender /\ [][NextRender]_vars

-----------------------------------------------------------------------------
(* SpecIndent: one instance with the default options or a process label,    *)
(* the indentation calls and the level methods                              *)

IndentCfgs == {NoOptions, [NoOptions EXCEPT !.process = "app"]}

InitIndent == Constructed(IndentCfgs, {""}, {FALSE}, {TRUE}) /\ sink = Spy(FALSE)

NextIndent ==
    \/ IndentCall
    \/ OutdentCall
    \/ PauseIndentationCall
    \/ ResumeIndentationCall
    \/ ResetIndentationCall
    \/ LevelCall({"log", "info", "debug"}, {<<"x">>})

SpecIndent == InitIndent /\ [][NextIndent]_vars

-----------------------------------------------------------------------------
(* The claims *)

\* the levels of the cascade table
CascadeLevels ==
    {"all", "silly", "debug", "verbose", "timing", "http", "notice", "info",
     "warn", "quiet", "error"}

\* the cascade table: the methods a level enables
CascadeRow(l) ==
    LET error == {"error", "log"}
        warn == error \cup {"warn", "warning"}
        info == warn \cup {"info", "success"}
        notice == info \cup {"notice"}
        http == notice \cup {"http"}
        timing == http \cup {"timing"}
        debug == timing \cup {"debug", "verbose"}
        silly == debug \cup {"silly"}
    IN  CASE l \in {"all", "silly"} -> silly
          [] l \in {"debug", "verbose"} -> debug
          [] l = "timing" -> timing
          [] l = "http" -> http
          [] l = "notice" -> notice
          [] l = "info" -> info
          [] l = "warn" -> warn
          [] l \in {"quiet", "error"} -> error

\* the methods of an instance that are enabled
EnabledMethods(me) == {m \in LevelMethods : me.enable[m]}

\* the latest call was a call of op on instance i
Latest(i, op) == call.inst = i /\ call.op = op

\* C1: after setLogLevel(L), for every level L of the cascade table and in any
\* state, the enabled methods are exactly the row of L, and a call of a method
\* outside the row writes no line.
C1_ExactCascade ==
    \A i \in DOMAIN obj :
        (Latest(i, "setLogLevel") /\ call.args[1] \in CascadeLevels) =>
            /\ EnabledMethods(obj[i]) = CascadeRow(call.args[1])
            /\ \A m \in LevelMethods \ CascadeRow(call.args[1]) :
                   getLogFn(obj[i], m, <<"c">>, supportsColor).out = <<>>

\* C2: a call of log on an instance that is not muted writes exactly one line,
\* whatever levels the instance was constructed with and set to.
C2_LogAlwaysWrites ==
    (call.op = "log" /\ ~pre._mute) => Len(out) = 1

\* the operations that write to the sink
WritingOps == LevelMethods \cup {"count", "report", "json", "clear", "clearLine"}

\* every write that a call on the instance me can make, over the inputs of the model
WritesOf(me) ==
    UNION ({{getLogFn(me, m, <<"Hi">>, supportsColor).out : m \in LevelMethods},
            {count(me, l, t, supportsColor).out : l \in {"", "a"}, t \in {"log", "error", NULL}},
            {report(me, l, t, supportsColor).out : l \in {"", "a"}, t \in {"log", "error"}},
            {json(me, v, 4, t, supportsColor).out : v \in {"1", "{a:1}"}, t \in {"log", "error"}},
            {clear(me).out, clearLine(me).out}})

\* C3 (as amended): a call of a level method, count, report, json, clear or
\* clearLine on a muted instance writes nothing; and from a state in which the
\* instance is not muted, mute() then unmute() gives back the same instance
\* state, so every later call writes what it would have written.
C3_MuteSuppressesAndRestores ==
    \A i \in DOMAIN obj :
        /\ (call.inst = i /\ call.op \in WritingOps /\ pre._mute) => out = <<>>
        /\ WritesOf(mute(obj[i]).me) = {<<>>}
        /\ ~obj[i]._mute =>
               /\ unmute(mute(obj[i]).me).me = obj[i]
               /\ WritesOf(unmute(mute(obj[i]).me).me) = WritesOf(obj[i])

\* C3 as claimed: from any reachable state, mute() then unmute() leaves the
\* instance behaving as before.
C3_RestoresFromAnyState ==
    \A i \in DOMAIN obj :
        WritesOf(unmute(mute(obj[i]).me).me) = WritesOf(obj[i])

\* C3 witness: the instance was muted while log was enabled and a label was
\* tracked, and unmute() has given back the state it had apart from the flag.
C3_Witness ==
    /\ call.op = "unmute"
    /\ pre._mute
    /\ pre.enable["log"]
    /\ DOMAIN pre._trackers # {}
    /\ WritesOf(pre) = {<<>>}
    /\ WritesOf(obj[call.inst]) # {<<>>}

\* the operations of the public interface
PublicOps ==
    LevelMethods \cup
    {"setLogLevel", "mute", "unmute", "indent", "outdent", "pauseIndentation",
     "resumeIndentation", "resetIndentation", "clear", "clearLine", "count",
     "clearCount", "track", "untrack", "report", "json"}

\* C7: every public operation that returns gives back the instance itself.
C7_ReturnsInstance ==
    (call.op \in PublicOps /\ ret # "TypeError") => ret = "this"

\* C8: count, report and json given an emitAs that names no log method raise
\* no error, and an operation that does not complete leaves the state as it was.
C8_NoErrorOnBadEmitAs ==
    (call.op \in {"count", "report", "json"} /\ call.args[Len(call.args)] \notin LevelMethods) =>
        /\ ret # "TypeError"
        /\ obj[call.inst] = pre \/ ret \in {"this", "undefined"}

RECURSIVE IndentTimes(_, _)
\* n calls of indent
IndentTimes(me, n) == IF n = 0 THEN me ELSE IndentTimes(indent(me).me, n - 1)

RECURSIVE OutdentTimes(_, _)
\* n calls of outdent
OutdentTimes(me, n) == IF n = 0 THEN me ELSE OutdentTimes(outdent(me).me, n - 1)

\* C9: the depth is a non-negative integer in every state; outdent at depth 0
\* leaves it 0; N indents then N outdents give back the depth they started at.
C9_DepthNonNegativeInteger ==
    \A i \in DOMAIN obj :
        /\ IsInt(obj[i]._indentation) /\ obj[i]._indentation.val >= 0
        /\ (Latest(i, "outdent") /\ pre._indentation = Num(0)) =>
               obj[i]._indentation = Num(0)
        /\ \A n \in 0..MaxDepth :
               OutdentTimes(IndentTimes(obj[i], n), n)._indentation = obj[i]._indentation

\* the longest run of calls between a pause and its resume
MaxBetween == 2

\* the calls that may come between a pause and its resume
Between == {"indent", "outdent", "log"}

BetweenRuns == UNION {[1..n -> Between] : n \in 0..MaxBetween}

RECURSIVE AfterRun(_, _)
\* the instance after the calls of run
AfterRun(me, run) ==
    IF Len(run) = 0 THEN me
    ELSE AfterRun(IF Head(run) = "indent" THEN indent(me).me
                  ELSE IF Head(run) = "outdent" THEN outdent(me).me
                  ELSE getLogFn(me, Head(run), <<"x">>, supportsColor).me,
                  Tail(run))

\* C10: pauseIndentation() at depth d sets the depth to 0, and the next
\* resumeIndentation(), after any level method, indent and outdent calls, sets
\* the depth to d again and empties the saved slot.
C10_PauseResumeRestoresDepth ==
    \A i \in DOMAIN obj :
        /\ Latest(i, "pauseIndentation") =>
               obj[i]._indentation = Num(0) /\ obj[i]._indentWas = pre._indentation
        /\ (call.inst = i /\ call.op \in Between) => obj[i]._indentWas = pre._indentWas
        /\ Latest(i, "resumeIndentation") =>
               obj[i]._indentation = pre._indentWas /\ obj[i]._indentWas = UNDEFINED
        /\ \A run \in BetweenRuns :
               LET paused == pauseIndentation(obj[i]).me
                   resumed == resumeIndentation(AfterRun(paused, run)).me
               IN  /\ paused._indentation = Num(0)
                   /\ resumed._indentation = obj[i]._indentation
                   /\ resumed._indentWas = UNDEFINED

\* C10 witness: a resume has set the depth back to 2 from another depth, the
\* depth that indent calls after the pause had reached.
C10_Witness ==
    /\ call.op = "resumeIndentation"
    /\ pre._indentWas = Num(2)
    /\ pre._indentation = Num(1)
    /\ obj[call.inst]._indentation = Num(2)
    /\ obj[call.inst]._indentWas = UNDEFINED

\* the prefix table of a selectable style that has one
StyleTable(style) ==
    IF style = "text" THEN textPrefixes
    ELSE IF style = "ascii" THEN asciiPrefixes(isWin)
    ELSE IF style = "emoji" THEN emojiPrefixes
    ELSE IF style = "npm" THEN npmPrefixes
    ELSE [m \in LevelMethods |-> ""]

\* the latest call was a permitted call of a level method
PermittedLevelCall ==
    call.op \in LevelMethods /\ pre.enable[call.op] /\ ~pre._mute

\* the process label of an instance, if one is configured
LabelPart(me) == IF me.cfg.process # "" THEN <<me.cfg.process>> ELSE <<>>

\* one spacing unit per depth, if the depth is above 0
SpacingPart(me) ==
    IF IsInt(me._indentation) /\ me._indentation.val > 0
    THEN <<Repeat(" ", me._indentation.val)>>
    ELSE <<>>

\* the line of a permitted call of method l with the arguments args, with the
\* colour transforms applied (colour TRUE) or left out
LineOf(me, l, args, colour) ==
    LET prefix == IF me.cfg._noPrefix THEN "" ELSE StyleTable(me.cfg.prefixStyle)[l]
        prefixPart == IF prefix = "" THEN <<>>
                      ELSE IF colour THEN <<colorStyles(l, prefix, supportsColor)>>
                      ELSE <<prefix>>
        joined == Join(LabelPart(me) \o SpacingPart(me) \o prefixPart \o args, " ")
    IN  IF me.cfg._noPrefix /\ colour
        THEN colorStyles(l, joined, supportsColor)
        ELSE joined

\* the resolved configuration of an instance constructed without options, at
\* the default level l
DefaultConfiguration(l) ==
    [prefixStyle |-> "text", logLevel |-> l, process |-> "", color |-> ABSENT,
     colors |-> "colorStyles", prefixes |-> textPrefixes, _noPrefix |-> FALSE,
     _noColors |-> FALSE]

\* the latest call was info('Hi') at depth 0 of an instance with the default
\* configuration
DefaultInfoHi ==
    /\ call.op = "info"
    /\ call.args = <<"Hi">>
    /\ pre.cfg = DefaultConfiguration(defaultCfg.logLevel)
    /\ pre._indentation = Num(0)

\* a permitted call of a level method has written the one line of its parts
PermittedCallWritesParts ==
    PermittedLevelCall =>
        out = <<ConsoleLog(LineOf(pre, call.op, call.args, ~pre.cfg._noColors))>>

C5_ColorFalseWritesPlain ==
    (PermittedLevelCall /\ pre.cfg.color = "false") =>
        out = <<ConsoleLog(LineOf(pre, call.op, call.args, FALSE))>>

\* the styles a configuration can select
SelectableStyles == {"text", "ascii", "emoji", "npm", "none"}

\* the line of a log call without a prefix part
UnprefixedLine(me, args) == Join(LabelPart(me) \o SpacingPart(me) \o args, " ")

C11_ResumeYieldsLatestSaved ==
    \A i \in DOMAIN obj :
        LET paused == pauseIndentation(obj[i]).me
        IN  /\ \A run \in BetweenRuns :
                   LET second == AfterRun(paused, run)
                   IN  resumeIndentation(pauseIndentation(second).me).me._indentation
                           = second._indentation
            /\ resumeIndentation(resumeIndentation(paused).me).me._indentation
                   = obj[i]._indentation
            /\ call.op = "new" => IsInt(resumeIndentation(obj[i]).me._indentation)

-----------------------------------------------------------------------------
(* SpecCount: one instance with the default options; count and clearCount    *)
(* without a label and with the labels '_', 'a' and 'b', mute and unmute     *)

\* the label argument of count and clearCount: none, and three strings
CountLabels == {"", "_", "a", "b"}

InitCount == Constructed({NoOptions}, {""}, {FALSE}, {TRUE}) /\ sink = Spy(FALSE)

NextCount ==
    \/ CountCall(CountLabels, {"log"})
    \/ ClearCountCall(CountLabels)
    \/ MuteCall
    \/ UnmuteCall

SpecCount == InitCount /\ [][NextCount]_vars

\* the longest run of count and clearCount calls that is followed
MaxRun == 3

\* a call of count or of clearCount with a label argument
CountSteps == [op : {"count", "clearCount"}, label : CountLabels]

CountRuns == UNION {[1..n -> CountSteps] : n \in 0..MaxRun}

\* the line that the k-th call of count(l) is to write
CountLine(l, k) == IF l = "" THEN NumStr(k) ELSE l \o ": " \o NumStr(k)

RECURSIVE CountsAsClaimed(_, _, _, _)
\* along the calls of run on me, each call of count(l) writes the line of its
\* rank, where k calls of count(l) were made since the last clearCount(l)
CountsAsClaimed(me, l, run, k) ==
    IF Len(run) = 0 THEN TRUE
    ELSE IF Head(run).op = "count"
    THEN LET r == count(me, Head(run).label, "log", supportsColor)
         IN  /\ Head(run).label = l => r.out = <<ConsoleLog(CountLine(l, k + 1))>>
             /\ CountsAsClaimed(r.me, l, Tail(run), IF Head(run).label = l THEN k + 1 ELSE k)
    ELSE CountsAsClaimed(clearCount(me, Head(run).label).me, l, Tail(run),
                         IF Head(run).label = l THEN 0 ELSE k)

\* C12: on an instance that is not muted and has log enabled, after
\* clearCount(l) or construction, the k-th call of count(l) writes '<l>: k'
\* (the number k alone for a call without label), whatever calls of count and
\* clearCount with other labels come in between; after clearCount(l) the next
\* count(l) writes 1 again.
C12_KthCountWritesK ==
    \A i \in DOMAIN obj :
        (~obj[i]._mute /\ obj[i].enable["log"]) =>
            \A l \in CountLabels, run \in CountRuns :
                /\ CountsAsClaimed(clearCount(obj[i], l).me, l, run, 0)
                /\ call.op = "new" => CountsAsClaimed(obj[i], l, run, 0)

\* C13: for every non-empty label s, count(s) and clearCount(s) leave the
\* number that the next count() without label reports as it was, and count()
\* and clearCount() without label leave the number that the next count(s)
\* reports as it was.
C13_AnonymousBucketDistinct ==
    \A i \in DOMAIN obj :
        \A s \in CountLabels \ {""} :
            /\ count(count(obj[i], s, "log", supportsColor).me, "", "log", supportsColor).out
                   = count(obj[i], "", "log", supportsColor).out
            /\ count(clearCount(obj[i], s).me, "", "log", supportsColor).out
                   = count(obj[i], "", "log", supportsColor).out
            /\ count(count(obj[i], "", "log", supportsColor).me, s, "log", supportsColor).out
                   = count(obj[i], s, "log", supportsColor).out
            /\ count(clearCount(obj[i], "").me, s, "log", supportsColor).out
                   = count(obj[i], s, "log", supportsColor).out

-----------------------------------------------------------------------------
(* SpecTrack: one instance with the default options; track, untrack and      *)
(* report with the labels 'B', 'a', 'b' and 'toString', mute and unmute      *)

TrackLabels == {"B", "a", "b", "toString"}

InitTrack == Constructed({NoOptions}, {""}, {FALSE}, {TRUE}) /\ sink = Spy(FALSE)

NextTrack ==
    \/ TrackCall(TrackLabels)
    \/ UntrackCall(TrackLabels)
    \/ ReportCall({"", "a"}, {"log"})
    \/ MuteCall
    \/ UnmuteCall

SpecTrack == InitTrack /\ [][NextTrack]_vars

\* a call of track or of untrack with a label
TrackSteps == [op : {"track", "untrack"}, label : TrackLabels]

TrackRuns == UNION {[1..n -> TrackSteps] : n \in 0..MaxRun}

RECURSIVE AfterTrackRun(_, _)
\* the instance after the calls of run
AfterTrackRun(me, run) ==
    IF Len(run) = 0 THEN me
    ELSE AfterTrackRun(IF Head(run).op = "track" THEN track(me, Head(run).label).me
                       ELSE untrack(me, Head(run).label).me,
                       Tail(run))

RECURSIVE UntrackAll(_, _)
\* the instance after untrack of every label of the sequence
UntrackAll(me, labels) ==
    IF Len(labels) = 0 THEN me
    ELSE UntrackAll(untrack(me, Head(labels)).me, Tail(labels))

RECURSIVE Tally(_, _)
\* the number of track(l) calls of run since its last untrack(l)
Tally(run, l) ==
    IF Len(run) = 0 THEN 0
    ELSE LET last == run[Len(run)]
             before == SubSeq(run, 1, Len(run) - 1)
         IN  IF last.label # l THEN Tally(before, l)
             ELSE IF last.op = "track" THEN Tally(before, l) + 1
             ELSE 0

\* the labels in ascending lexical order, an upper case letter before the
\* lower case ones
Lexical == <<"B", "a", "b", "toString">>

\* the line report() is to write after the calls of run on an instance that
\* tracked nothing: every label with a tally, in order, as '<label>: <n>'
ReportLine(run) ==
    LET tracked == SelectSeq(Lexical, LAMBDA l : Tally(run, l) > 0)
    IN  Join([k \in DOMAIN tracked |-> tracked[k] \o ": " \o NumStr(Tally(run, tracked[k]))],
             ", ")

\* what report() without a label writes after the calls of run on me
ReportAfter(me, run) == report(AfterTrackRun(me, run), "", "log", supportsColor).out

\* C14: on an instance that is not muted and has log enabled, report() without
\* a label writes one line that lists every tracked label once, in ascending
\* lexical order, separated by ', ', each as '<label>: <n>' with n the number
\* of track(label) calls since construction or the last untrack(label), and
\* writes nothing when no label is tracked.
C14_ReportListsTracked ==
    \A i \in DOMAIN obj :
        (~obj[i]._mute /\ obj[i].enable["log"]) =>
            \A run \in TrackRuns :
                LET lines == IF ReportLine(run) = "" THEN <<>>
                             ELSE <<ConsoleLog(ReportLine(run))>>
                IN  /\ ReportAfter(UntrackAll(obj[i], Lexical), run) = lines
                    /\ call.op = "new" => ReportAfter(obj[i], run) = lines

-----------------------------------------------------------------------------
(* SpecFacade: the module as loaded, reconfigurations through Loog(), and    *)
(* calls on the handle of any instance that change its flags, mute flag,     *)
(* depth, saved slot, counters and trackers                                  *)

\* the configuration object given to Loog()
FacadeCfgs == {[NoOptions EXCEPT !.prefixStyle = "emoji", !.logLevel = "error"]}

InitFacade == Constructed({NoOptions}, {""}, {FALSE}, {TRUE}) /\ sink = Spy(FALSE)

NextFacade ==
    \/ LoogCall(FacadeCfgs)
    \/ SetLogLevelCall({"all"})
    \/ MuteCall
    \/ PauseIndentationCall
    \/ ResumeIndentationCall
    \/ CountCall({""}, {NULL})
    \/ TrackCall({"a"})

SpecFacade == InitFacade /\ [][NextFacade]_vars

\* C15: a call on the handle of an instance acts on that instance, also after
\* later reconfigurations, and no step (a call on another instance, or a
\* reconfiguration) changes anything of an instance it is not a call on:
\* flags, mute flag, depth, saved slot, counters, trackers, configuration.
C15_InstancesIndependent ==
    [][/\ \A j \in DOMAIN obj : (call'.op = "Loog" \/ call'.inst # j) => obj'[j] = obj[j]
       /\ call'.op # "Loog" => call'.inst \in DOMAIN obj /\ pre' = obj[call'.inst]]_vars

\* C15 witness: after a reconfiguration gave a second instance with another
\* configuration, a call on the handle of the first instance has changed the
\* first instance, and the second is as it was constructed.
C15_Witness ==
    /\ Len(obj) = 2
    /\ _instance = 2
    /\ call.op = "track"
    /\ call.inst = 1
    /\ obj[1] # pre
    /\ obj[1].cfg # obj[2].cfg
    /\ obj[2] = Log(Merged(defaultCfg, [NoOptions EXCEPT !.prefixStyle = "emoji",
                                                          !.logLevel = "error"]), isWin)

\* C16: after Loog(cfg) the default export of the module is bound to the
\* instance that the call created, so a call through the default export is a
\* call on that instance, with its configuration.
C16_ExportFollowsReconfiguration ==
    Len(obj) > 1 => exports = _instance /\ obj[exports].cfg = obj[_instance].cfg

-----------------------------------------------------------------------------
(* SpecSink: the writes to standard output under a spy, as the tests of the  *)
(* repository install one: level methods that are permitted and denied,      *)
(* clear and clearLine, mute and unmute, on the instances of the module and  *)
(* of a reconfiguration                                                      *)

InitSink == Constructed({NoOptions}, {""}, {FALSE}, {TRUE}) /\ sink = Spy(TRUE)

NextSink ==
    \/ LevelCall({"log", "debug"}, {<<"hi">>, <<"bye">>})
    \/ ClearCall
    \/ ClearLineCall
    \/ MuteCall
    \/ UnmuteCall
    \/ LoogCall({NoOptions})

SpecSink == InitSink /\ [][NextSink]_vars

\* C17: every step leaves the writes that the sink has received in place and
\* appends the writes of its call after them: one line for a permitted call
\* of a level method, nothing for a denied one, the control sequence for
\* clear() and for clearLine() on an instance that is not muted, and nothing
\* for any other call, on whichever instance the call is made.
C17_SinkInCallOrder ==
    [][LET n == Len(sink.calls)
           added == SubSeq(sink'.calls, n + 1, Len(sink'.calls))
           permitted == pre'.enable[call'.op] /\ ~pre'._mute
       IN  /\ Len(sink'.calls) >= n
           /\ SubSeq(sink'.calls, 1, n) = sink.calls
           /\ added = out'
           /\ CASE call'.op \in LevelMethods ->
                       IF permitted
                       THEN Len(added) = 1 /\ added[1].fn = "console.log"
                       ELSE added = <<>>
                [] call'.op = "clear" ->
                       added = IF pre'._mute THEN <<>> ELSE <<StdoutWrite("<ESC>c")>>
                [] call'.op = "clearLine" ->
                       added = IF pre'._mute THEN <<>>
                               ELSE <<StdoutWrite("<ESC>[A<ESC>[K")>>
                [] OTHER -> added = <<>>]_vars

\* C17 witness: log('hi'), clear() and log('bye') were called, the last on the
\* instance of a reconfiguration, and the reset sequence is the second write.
C17_Witness ==
    /\ Len(obj) = 2
    /\ call.op = "log"
    /\ call.inst = 2
    /\ sink.calls = <<ConsoleLog("hi"), StdoutWrite("<ESC>c"), ConsoleLog("bye")>>

-----------------------------------------------------------------------------
(* SpecSilent: one instance constructed at the level silent, at the default  *)
(* level or at the level all; setLogLevel, the level methods, clear and      *)
(* clearLine, mute and unmute                                                *)

SilentCfgs == {[NoOptions EXCEPT !.logLevel = l] : l \in {ABSENT, "silent", "all"}}

InitSilent == Constructed(SilentCfgs, {"", "silent"}, {FALSE}, {TRUE}) /\ sink = Spy(FALSE)

NextSilent ==
    \/ LevelCall({"log", "info", "debug"}, {<<"c">>})
    \/ SetLogLevelCall({"silent", "info", "all"})
    \/ MuteCall
    \/ UnmuteCall
    \/ ClearCall
    \/ ClearLineCall

SpecSilent == InitSilent /\ [][NextSilent]_vars

\* C19: setLogLevel('silent') leaves the instance muted and changes no enabled
\* flag; an instance constructed at the level silent is muted and has no flag
\* set; and a call other than unmute() on a muted instance leaves it muted and
\* writes nothing, whether it is a level method, clear(), clearLine() or a
\* setLogLevel to another level.
C19_SilentIsMute ==
    \A i \in DOMAIN obj :
        /\ (Latest(i, "setLogLevel") /\ call.args[1] = "silent") =>
               obj[i]._mute /\ obj[i].enable = pre.enable
        /\ (Latest(i, "new") /\ obj[i].cfg.logLevel = "silent") =>
               obj[i]._mute /\ EnabledMethods(obj[i]) = {}
        /\ (call.inst = i /\ call.op \notin {"new", "unmute"} /\ pre._mute) =>
               obj[i]._mute /\ out = <<>>
        /\ LET silent == setLogLevel(obj[i], "silent").me
           IN  /\ silent._mute
               /\ silent.enable = obj[i].enable
               /\ \A m \in LevelMethods : getLogFn(silent, m, <<"c">>, supportsColor).out = <<>>
               /\ clear(silent).out = <<>>
               /\ clearLine(silent).out = <<>>

\* C19 witness: on an instance constructed at the level silent and then set
\* to a level that enables methods, clear() has written nothing.
C19_Witness ==
    /\ call.op = "clear"
    /\ pre.cfg.logLevel = "silent"
    /\ pre._mute
    /\ pre.enable["log"]
    /\ out = <<>>

-----------------------------------------------------------------------------
(* SpecConstruct: an instance constructed with the default options or with   *)
(* options of its own, calls that change its flags and its saved slot, and   *)
(* a reconfiguration at every level of the cascade table                     *)

\* the options of the first instance
FirstCfgs ==
    {NoOptions,
     [NoOptions EXCEPT !.prefixStyle = "emoji", !.process = "app", !.logLevel = "silly"]}

\* the configuration objects given to Loog(): every level of the cascade
\* table and no level, and a style and a label without a level
ConstructCfgs ==
    {[NoOptions EXCEPT !.logLevel = l] : l \in CascadeLevels \cup {ABSENT}}
        \cup {[NoOptions EXCEPT !.prefixStyle = "npm", !.process = "job"]}

InitConstruct == Constructed(FirstCfgs, {"", "warn"}, {FALSE}, {TRUE}) /\ sink = Spy(FALSE)

NextConstruct ==
    \/ LoogCall(ConstructCfgs)
    \/ SetLogLevelCall({"all"})
    \/ PauseIndentationCall

SpecConstruct == InitConstruct /\ [][NextConstruct]_vars

\* the value a new instance is to have for an option: the one supplied, or
\* the default when none is supplied
SuppliedOr(supplied, default) == IF supplied # ABSENT THEN supplied ELSE default

\* C20: an instance just produced by construction or by a reconfiguration has,
\* when its level L is a level of the cascade table, exactly the methods of
\* the row of L enabled; it has depth 0, an empty saved slot, no counters and
\* no trackers; and after a reconfiguration each option is the one supplied
\* or, when none is supplied, the default: the level of the environment (info
\* when it gives none), the text style with its prefix table, no label.
C20_NewInstanceFromDefaults ==
    \A i \in DOMAIN obj :
        (call.inst = i /\ call.op \in {"new", "Loog"}) =>
            /\ obj[i].cfg.logLevel \in CascadeLevels =>
                   EnabledMethods(obj[i]) = CascadeRow(obj[i].cfg.logLevel)
            /\ obj[i]._indentation = Num(0)
            /\ obj[i]._indentWas = UNDEFINED
            /\ DOMAIN obj[i]._counters = {}
            /\ DOMAIN obj[i]._trackers = {}
            /\ ~obj[i]._mute
            /\ call.op = "Loog" =>
                   /\ obj[i].cfg.logLevel =
                          SuppliedOr(call.args[1].logLevel, defaultCfg.logLevel)
                   /\ obj[i].cfg.prefixStyle = SuppliedOr(call.args[1].prefixStyle, "text")
                   /\ obj[i].cfg.process = SuppliedOr(call.args[1].process, "")
                   /\ obj[i].cfg.prefixes = StyleTable(obj[i].cfg.prefixStyle)
                   /\ ~obj[i].cfg._noPrefix /\ ~obj[i].cfg._noColors

\* C20 witness: the first instance has the emoji style, a label, every method
\* enabled and a saved depth; Loog({logLevel: 'warn'}) has produced an instance
\* with the row of warn, the text style, no label and an empty saved slot.
C20_Witness ==
    /\ call.op = "Loog"
    /\ call.args[1].logLevel = "warn"
    /\ Len(obj) = 2
    /\ obj[1].cfg.prefixStyle = "emoji"
    /\ obj[1].cfg.process = "app"
    /\ EnabledMethods(obj[1]) = LevelMethods
    /\ obj[1]._indentWas = Num(0)
    /\ obj[2].cfg.prefixStyle = "text"
    /\ obj[2].cfg.process = ""
    /\ EnabledMethods(obj[2]) = {"error", "log", "warn", "warning"}
    /\ obj[2]._indentWas = UNDEFINED

-----------------------------------------------------------------------------
(* SpecMethods: one instance with the default options, in a terminal with    *)
(* and without colour support; setLogLevel('all') and every level method     *)
(* called with 'Hi'                                                          *)

\* ex.$methods: the levels without all, quiet and silent, and log
Methods == (LevelSet \ {"all", "quiet", "silent"}) \cup {"log"}

InitMethods ==
    Constructed({NoOptions}, {"", "error", "warn"}, {FALSE}, BOOLEAN) /\ sink = Spy(FALSE)

NextMethods ==
    \/ SetLogLevelCall({"all"})
    \/ LevelCall(LevelMethods, {<<"Hi">>})

SpecMethods == InitMethods /\ [][NextMethods]_vars

\* the latest call was m('Hi'), m a method of $methods, on an instance with
\* the default text style on which setLogLevel('all') has enabled every method
MethodHiAfterAll ==
    /\ call.op \in Methods
    /\ call.args = <<"Hi">>
    /\ pre.cfg.prefixStyle = "text"
    /\ pre.cfg.prefixes = textPrefixes
    /\ EnabledMethods(pre) = LevelMethods
    /\ ~pre._mute

\* the text prefix of m as the colour transform of m renders it, a space, Hi
PrefixSpaceHi(m) == colorStyles(m, textPrefixes[m], supportsColor) \o " " \o "Hi"

RowOf(l) ==
    IF l \in CascadeLevels THEN CascadeRow(l)
    ELSE IF l \in {"success", "silent"} THEN {}
    ELSE CascadeRow("info")

\* the runs of up to MaxRun setLogLevel calls
LevelRuns == UNION {[1..n -> LevelInputs] : n \in 0..MaxRun}

RECURSIVE AfterLevels(_, _)
\* the instance after setLogLevel of every level of run, in order
AfterLevels(me, run) ==
    IF Len(run) = 0 THEN me
    ELSE AfterLevels(setLogLevel(me, Head(run)).me, Tail(run))

\* every operation but the level methods and setLogLevel, applied to me
OtherOperations(me) ==
    {mute(me), unmute(me), clear(me), clearLine(me), indent(me), outdent(me),
     pauseIndentation(me), resumeIndentation(me), resetIndentation(me),
     clearCount(me, "a"), track(me, "a"), untrack(me, "a"),
     count(me, "a", "log", supportsColor), report(me, "", "log", supportsColor),
     json(me, "1", 4, "log", supportsColor)}

-----------------------------------------------------------------------------
(* SpecSuppressed: one instance with the default options, where debug is     *)
(* disabled; count emitting as log, as debug and as null, level methods,     *)
(* mute and unmute                                                           *)

\* the label argument of count: none, a string, and the name of a property of
\* Object.prototype
SuppressedLabels == {"", "a", "toString"}

\* the type argument of count: omitted, a disabled method, null
SuppressedTypes == {"log", "debug", NULL}

InitSuppressed == Constructed({NoOptions}, {""}, {FALSE}, {TRUE}) /\ sink = Spy(FALSE)

NextSuppressed ==
    \/ CountCall(SuppressedLabels, SuppressedTypes)
    \/ LevelCall({"log", "debug"}, {<<"Hi">>})
    \/ MuteCall
    \/ UnmuteCall

SpecSuppressed == InitSuppressed /\ [][NextSuppressed]_vars

\* the count of k as the next count would show it before adding one
ShownCount(o, k) == IF k \in DOMAIN o THEN Shown(o, k) ELSE "0"

\* C24: every call of count(label, emitAs) raises the count of label by one,
\* also when it writes nothing (muted, emitAs disabled, emitAs null), and the
\* next visible count(label) then writes the number that includes the call;
\* a level method that is denied (muted or disabled) changes no state and
\* writes nothing.
C24_CountsSuppressedCalls ==
    \A i \in DOMAIN obj :
        /\ Latest(i, "count") =>
               LET label == call.args[1]
                   key == Bucket(label)
                   m == IF label # "" THEN label \o ": " ELSE ""
                   visible == unmute(obj[i]).me
               IN  \E n \in 0..MaxCount :
                       /\ ShownCount(pre._counters, key) = NumStr(n)
                       /\ ShownCount(obj[i]._counters, key) = NumStr(n + 1)
                       /\ count(visible, label, "log", supportsColor).out =
                              CallByName(visible, "log", m \o NumStr(n + 2),
                                         supportsColor).out
                       /\ count(visible, label, "log", supportsColor).out # <<>>
        /\ (/\ call.inst = i
            /\ call.op \in LevelMethods
            /\ (pre._mute \/ ~pre.enable[call.op])) =>
               obj[i] = pre /\ out = <<>>

=============================================================================
